---- MODULE Spec2Model ----
(***************************************************************************)
(* dcmrmel: remove elements from DICOM datasets, in place.                 *)
(*                                                                         *)
(* The model follows src/src/dcmrmel/dcmrmel.py.  A file is a record of    *)
(* its magic bytes, whether the DICOM parser accepts it, its file-meta     *)
(* elements and its main elements.  A dataset is a function from tags to   *)
(* elements; a sequence element (VR "SQ") carries a list of item datasets. *)
(* Command-line strings that the program converts (group numbers, tags)    *)
(* are sequences of characters, so that the conversions are computed.      *)
(***************************************************************************)
EXTENDS Integers, Sequences, FiniteSets, TLC

VARIABLES
    fs,        \* the file system: path -> file content (existing files only)
    args,      \* the parsed command line (argparse namespace)
    run,       \* number of the current invocation of the command
    pc,        \* position of main() in the current invocation
    fp_list,   \* result of make_dcm_fp_list
    fp_cnt,    \* loop counter of main's for loop (1-based, 0 before the loop)
    ds,        \* the dataset loaded by pydicom.dcmread for the current file
    stdout,    \* what the invocation printed to standard output
    stderr,    \* what the invocation printed to standard error
    fs0,       \* history: the file system when the current invocation started
    inp,       \* history: the bytes dcmread read for the current file
    log,       \* history: file operations of the current invocation, in order
    saves,     \* history: every save_as of every invocation: run, path, bytes read, bytes written
    argv,      \* sys.argv: the program name, then a word for the arguments given
    walked     \* history: the calls of Dataset.walk for the current file, in order

vars == <<fs, args, run, pc, fp_list, fp_cnt, ds, stdout, stderr, fs0, inp, log, saves,
          argv, walked>>

\* ------------------------------------------------------------------ bounds

\* Invocations of the command that the model follows one after the other.
MaxRuns == 2

\* The largest total that progress is called with on its own.
MaxTotal == 8

\* A further invocation is followed only while the path holds at most this
\* many DICOM files (each invocation with backup adds files).
MaxList == 2

\* ------------------------------------------------------------------ tags

\* pydicom BaseTag: a 32-bit number, group in the upper 16 bits.
TupleTag(group, element) == group * 65536 + element

\* BaseTag.element: the lower 16 bits.
TagElement(tag) == tag % 65536

\* BaseTag.group: the upper 16 bits.
TagGroup(tag) == tag \div 65536

\* pydicom BaseTag.is_private: the group number is odd.
is_private(tag) == TagGroup(tag) % 2 = 1

FileMetaInformationGroupLength == TupleTag(2, 0)
MediaStorageSOPClassUID        == TupleTag(2, 2)
TransferSyntaxUID              == TupleTag(2, 16)
ImplementationVersionName      == TupleTag(2, 19)
StudyDate                      == TupleTag(8, 32)
ReferencedStudySequence        == TupleTag(8, 4368)
PrivateCreator                 == TupleTag(9, 16)
PatientName                    == TupleTag(16, 16)
PatientID                      == TupleTag(16, 32)
RepetitionTime                 == TupleTag(24, 128)
EchoTime                       == TupleTag(24, 129)
RequestedProcedureDescription  == TupleTag(50, 4192)
ScheduledProcedureStepID       == TupleTag(64, 9)
RequestAttributesSequence      == TupleTag(64, 629)

\* ------------------------------------------------------------------ strings

HexDigits ==
    ("0" :> 0) @@ ("1" :> 1) @@ ("2" :> 2) @@ ("3" :> 3) @@ ("4" :> 4) @@
    ("5" :> 5) @@ ("6" :> 6) @@ ("7" :> 7) @@ ("8" :> 8) @@ ("9" :> 9) @@
    ("a" :> 10) @@ ("b" :> 11) @@ ("c" :> 12) @@ ("d" :> 13) @@ ("e" :> 14) @@
    ("f" :> 15) @@ ("A" :> 10) @@ ("B" :> 11) @@ ("C" :> 12) @@ ("D" :> 13) @@
    ("E" :> 14) @@ ("F" :> 15)

RECURSIVE HexValue(_)
HexValue(s) ==
    IF s = <<>> THEN 0
    ELSE 16 * HexValue(SubSeq(s, 1, Len(s) - 1)) + HexDigits[s[Len(s)]]

RECURSIVE StripZeros(_)
StripZeros(s) == IF s /= <<>> /\ Head(s) = "0" THEN StripZeros(Tail(s)) ELSE s

\* Python int(s, 16): an optional 0x/0X prefix, then one or more hex digits;
\* anything else raises ValueError.
int16(s) ==
    LET prefixed == Len(s) >= 2 /\ s[1] = "0" /\ s[2] \in {"x", "X"}
        digits   == IF prefixed THEN SubSeq(s, 3, Len(s)) ELSE s
        ok       == digits /= <<>> /\ \A i \in DOMAIN digits : digits[i] \in DOMAIN HexDigits
    IN  [ok |-> ok, val |-> IF ok THEN HexValue(digits) ELSE 0,
         width |-> IF ok THEN Len(StripZeros(digits)) ELSE 0]

KwPatientName == <<"P", "a", "t", "i", "e", "n", "t", "N", "a", "m", "e">>
KwEchoTime    == <<"E", "c", "h", "o", "T", "i", "m", "e">>
KwBogus       == <<"B", "o", "g", "u", "s">>

\* pydicom.datadict.tag_for_keyword, for the keywords of the model.
tag_for_keyword == (KwPatientName :> PatientName) @@ (KwEchoTime :> EchoTime)

\* pydicom.tag.Tag(str): the string as a hexadecimal number of at most 32
\* bits (eight significant digits), else as a dictionary keyword, else an error.
Tag(arg) ==
    LET n == int16(arg)
    IN  IF n.ok
        THEN [ok |-> n.width <= 2 * 4, val |-> n.val]
        ELSE IF arg \in DOMAIN tag_for_keyword
             THEN [ok |-> TRUE, val |-> tag_for_keyword[arg]]
             ELSE [ok |-> FALSE, val |-> 0]

InList(x, list) == \E i \in DOMAIN list : list[i] = x

\* ------------------------------------------------------------------ datasets

\* A data element: value representation, value length, value; a sequence
\* element holds its item datasets in items.
Elem(vr, vl, value) == [VR |-> vr, VL |-> vl, value |-> value, items |-> <<>>]

SeqElem(items) == [VR |-> "SQ", VL |-> 0, value |-> "", items |-> items]

\* The dataset with no element.
NoElements == <<>>

\* del ds[tag]
DelItem(dataset, tag) == [t \in (DOMAIN dataset) \ {tag} |-> dataset[t]]

RECURSIVE SortSet(_)
SortSet(S) ==
    IF S = {} THEN <<>>
    ELSE LET m == CHOOSE x \in S : \A y \in S : x <= y
         IN  <<m>> \o SortSet(S \ {m})

\* The callbacks handed to Dataset.walk, by the function that defines them:
\* each deletes the element from the dataset that holds it when it matches.
Matches(kind, list, tag, elem) ==
    CASE kind = "private" -> is_private(tag)
      [] kind = "vr"      -> InList(elem.VR, list)
      [] kind = "group"   -> InList(TagGroup(tag), list)
      [] kind = "tag"     -> InList(tag, list)

callback(ds_a, tag, kind, list) ==
    IF Matches(kind, list, tag, ds_a[tag]) THEN DelItem(ds_a, tag) ELSE ds_a

\* pydicom Dataset.walk: the tags are listed, sorted, before the loop; each
\* element is handed to the callback; the items of a sequence element are
\* walked after it unless the callback deleted it.
RECURSIVE walk(_, _, _), WalkTags(_, _, _, _), WalkItems(_, _, _)
WalkItems(items, kind, list) ==
    [i \in DOMAIN items |-> walk(items[i], kind, list)]

\* A walk over the live tag list: the tag after a deleted one is passed over.
WalkTagsLive(dataset, taglist, kind, list) ==
    IF taglist = <<>> THEN dataset
    ELSE LET tag   == Head(taglist)
             elem  == dataset[tag]
             after == callback(dataset, tag, kind, list)
             next  == IF tag \in DOMAIN after /\ elem.VR = "SQ"
                      THEN [after EXCEPT ![tag].items = WalkItems(elem.items, kind, list)]
                      ELSE after
             rest  == IF tag \notin DOMAIN after /\ Tail(taglist) /= <<>>
                      THEN Tail(Tail(taglist))
                      ELSE Tail(taglist)
         IN  WalkTags(next, rest, kind, list)

WalkTags(dataset, taglist, kind, list) ==
    IF taglist = <<>> THEN dataset
    ELSE LET tag   == Head(taglist)
             elem  == dataset[tag]
             after == callback(dataset, tag, kind, list)
             next  == IF tag \in DOMAIN after /\ elem.VR = "SQ"
                      THEN [after EXCEPT ![tag].items = WalkItems(elem.items, kind, list)]
                      ELSE after
         IN  WalkTags(next, Tail(taglist), kind, list)

walk(dataset, kind, list) ==
    WalkTags(dataset, SortSet(DOMAIN dataset), kind, list)

\* self[tag] of an element that is no longer in the dataset raises KeyError:
\* the mark that ends the list of visits of a walk that failed.
KeyError == <<-1>>

\* The elements that Dataset.walk hands to the callback, in order, each named
\* by its path: the tags and item numbers that lead to it from the dataset
\* walked.  The walk is the one of WalkTags, seen from the callback.
RECURSIVE Visited(_, _, _, _), VisitedTags(_, _, _, _, _), VisitedItems(_, _, _, _, _)
VisitedItems(items, i, kind, list, prefix) ==
    IF i > Len(items) THEN <<>>
    ELSE Visited(items[i], kind, list, prefix \o <<i>>)
         \o VisitedItems(items, i + 1, kind, list, prefix)

\* A walk over the live tag list: the tag after a deleted one is passed over.
VisitedTagsLive(dataset, taglist, kind, list, prefix) ==
    IF taglist = <<>> THEN <<>>
    ELSE IF Head(taglist) \notin DOMAIN dataset THEN <<KeyError>>
    ELSE LET tag   == Head(taglist)
             elem  == dataset[tag]
             after == callback(dataset, tag, kind, list)
             inner == IF tag \in DOMAIN after /\ elem.VR = "SQ"
                      THEN VisitedItems(elem.items, 1, kind, list, prefix \o <<tag>>)
                      ELSE <<>>
             rest  == IF tag \notin DOMAIN after /\ Tail(taglist) /= <<>>
                      THEN Tail(Tail(taglist))
                      ELSE Tail(taglist)
         IN  << prefix \o <<tag>> >> \o inner
             \o VisitedTags(after, rest, kind, list, prefix)

VisitedTags(dataset, taglist, kind, list, prefix) ==
    IF taglist = <<>> THEN <<>>
    ELSE IF Head(taglist) \notin DOMAIN dataset THEN <<KeyError>>
    ELSE LET tag   == Head(taglist)
             elem  == dataset[tag]
             after == callback(dataset, tag, kind, list)
             inner == IF tag \in DOMAIN after /\ elem.VR = "SQ"
                      THEN VisitedItems(elem.items, 1, kind, list, prefix \o <<tag>>)
                      ELSE <<>>
         IN  << prefix \o <<tag>> >> \o inner
             \o VisitedTags(after, Tail(taglist), kind, list, prefix)

Visited(dataset, kind, list, prefix) ==
    VisitedTags(dataset, SortSet(DOMAIN dataset), kind, list, prefix)

\* One call of Dataset.walk, as the history keeps it: the dataset walked
\* (part tells which: the main dataset or file_meta), the callback, the
\* dataset before and after, and the elements handed to the callback.
Walked(part, dataset, kind, list) ==
    [part |-> part, kind |-> kind, list |-> list, before |-> dataset,
     after |-> walk(dataset, kind, list), visited |-> Visited(dataset, kind, list, <<>>)]

\* The elements of the dataset itself only, not those of its sequences.
TopLevelOnly(dataset, kind, list) ==
    [t \in { u \in DOMAIN dataset : ~Matches(kind, list, u, dataset[u]) } |-> dataset[t]]

remove_tags_top(dataset, tags_to_rm) == TopLevelOnly(dataset, "tag", tags_to_rm)

remove_tags(dataset, tags_to_rm) == walk(dataset, "tag", tags_to_rm)

remove_vr_tags_top(dataset, vrs_to_remove) == TopLevelOnly(dataset, "vr", vrs_to_remove)

remove_vr_tags(dataset, vrs_to_remove) == walk(dataset, "vr", vrs_to_remove)

\* The strings converted in base 10.
RECURSIVE DecValue(_)
DecValue(s) ==
    IF s = <<>> THEN 0
    ELSE 10 * DecValue(SubSeq(s, 1, Len(s) - 1))
         + (IF s[Len(s)] \in DOMAIN HexDigits THEN HexDigits[s[Len(s)]] ELSE 0)

GroupRmBase10(groups_to_remove) ==
    [i \in DOMAIN groups_to_remove |-> DecValue(groups_to_remove[i])]

\* group_rm: the strings converted by int(group, 16), in order.
GroupRm(groups_to_remove) ==
    [i \in DOMAIN groups_to_remove |-> int16(groups_to_remove[i]).val]

GroupsParse(groups_to_remove) ==
    \A i \in DOMAIN groups_to_remove : int16(groups_to_remove[i]).ok

remove_group_tags(dataset, groups_to_remove) ==
    walk(dataset, "group", GroupRm(groups_to_remove))

remove_private_tags_top(dataset) == TopLevelOnly(dataset, "private", <<>>)

\* pydicom Dataset.remove_private_tags
remove_private_tags(dataset) == walk(dataset, "private", <<>>)

\* tag_to_rm_list of main
TagToRmList(rm_tag) == [i \in DOMAIN rm_tag |-> Tag(rm_tag[i]).val]

TagsParse(rm_tag) == \A i \in DOMAIN rm_tag : Tag(rm_tag[i]).ok

\* ------------------------------------------------------------------ files

\* A file: DICOM files start with the magic bytes DICM (after the preamble);
\* sound tells whether the parser accepts what follows.
File(magic, sound, file_meta, dataset) ==
    [magic |-> magic, sound |-> sound, file_meta |-> file_meta, dataset |-> dataset]

\* pydicom.misc.is_dicom: the magic bytes after the preamble are DICM.
is_dicom(file) == file.magic = "DICM"

RECURSIVE SumLengths(_, _)
SumLengths(file_meta, tags) ==
    IF tags = {} THEN 0
    ELSE LET t == CHOOSE x \in tags : TRUE
         IN  8 + file_meta[t].VL + SumLengths(file_meta, tags \ {t})

\* The writer recomputes FileMetaInformationGroupLength, when the element is
\* present, as the encoded length of the file-meta elements that follow it.
WriteFileMeta(file_meta) ==
    IF FileMetaInformationGroupLength \in DOMAIN file_meta
    THEN [file_meta EXCEPT ![FileMetaInformationGroupLength].value =
            ToString(SumLengths(file_meta, (DOMAIN file_meta) \ {FileMetaInformationGroupLength}))]
    ELSE file_meta

\* Dataset.save_as: preamble and magic, file-meta, then the main elements.
save_as(dataset) == File("DICM", TRUE, WriteFileMeta(dataset.file_meta), dataset.dataset)

\* pydicom.dcmread of a file the parser accepts.
dcmread(file) == [file_meta |-> file.file_meta, dataset |-> file.dataset]

NoDataset == [file_meta |-> NoElements, dataset |-> NoElements]

MediaStorageDirectoryStorage == "1.2.840.10008.1.3.10"

MRImageStorage == "1.2.840.10008.5.1.4.1.1.4"

\* ds.file_meta.get("MediaStorageSOPClassUID", None) == MediaStorageDirectoryStorage
IsDicomDir(dataset) ==
    /\ MediaStorageSOPClassUID \in DOMAIN dataset.file_meta
    /\ dataset.file_meta[MediaStorageSOPClassUID].value = MediaStorageDirectoryStorage

\* Paths: a name and the number of ".bak" suffixes that follow it.
Path(base, baks) == [base |-> base, baks |-> baks]

\* fp.with_suffix(fp.suffix + ".bak")
Bak(fp) == [fp EXCEPT !.baks = @ + 1]

\* ------------------------------------------------------------------ inputs

ImageMeta ==
    WriteFileMeta(
        (FileMetaInformationGroupLength :> Elem("UL", 4, "0")) @@
        (MediaStorageSOPClassUID :> Elem("UI", 26, MRImageStorage)) @@
        (TransferSyntaxUID :> Elem("UI", 20, "1.2.840.10008.1.2.1")) @@
        (ImplementationVersionName :> Elem("SH", 6, "report")))

DirMeta ==
    WriteFileMeta(
        (FileMetaInformationGroupLength :> Elem("UL", 4, "0")) @@
        (MediaStorageSOPClassUID :> Elem("UI", 20, MediaStorageDirectoryStorage)) @@
        (TransferSyntaxUID :> Elem("UI", 20, "1.2.840.10008.1.2.1")))

\* The first dataset of the tests: no element of group 0018.
ds_1 ==
    (StudyDate :> Elem("DA", 8, "20220101")) @@
    (PatientName :> Elem("PN", 18, "SURNAME^Firstname")) @@
    (PatientID :> Elem("LO", 12, "ABC12345678"))

\* The second dataset of the tests: dates, a name and the two timing elements.
ds_2 ==
    (StudyDate :> Elem("DA", 8, "20220101")) @@
    (PatientName :> Elem("PN", 18, "SURNAME^Firstname")) @@
    (RepetitionTime :> Elem("DS", 4, "2000")) @@
    (EchoTime :> Elem("DS", 2, "10"))

\* A dataset with a private element and nested sequences, two levels deep.
ds_3 ==
    (PrivateCreator :> Elem("LO", 6, "VENDOR")) @@
    (PatientName :> Elem("PN", 18, "SURNAME^Firstname")) @@
    (RequestAttributesSequence :> SeqElem(<<
        (StudyDate :> Elem("DA", 8, "20220101")) @@
        (PrivateCreator :> Elem("LO", 6, "VENDOR")) @@
        (RequestedProcedureDescription :> Elem("LO", 8, "MRI Head")) @@
        (ScheduledProcedureStepID :> Elem("SH", 2, "S1")) @@
        (ReferencedStudySequence :> SeqElem(<<
            (PatientName :> Elem("PN", 18, "SURNAME^Firstname")) @@
            (EchoTime :> Elem("DS", 2, "10")) >>)) >>))

Image1   == File("DICM", TRUE, ImageMeta, ds_1)
Image2   == File("DICM", TRUE, ImageMeta, ds_2)
Image3   == File("DICM", TRUE, ImageMeta, ds_3)
DicomDir == File("DICM", TRUE, DirMeta, NoElements)
\* An empty file, as made by touch: not DICOM.
NotDicom == File("", FALSE, NoElements, NoElements)
\* A file with the DICM magic bytes that the parser rejects.
Malformed == File("DICM", FALSE, NoElements, NoElements)

X0 == Path("x", 0)
X1 == Path("x", 1)
\* A file one level down, in the directory s of Dir.
Y0 == Path("s/y", 0)
\* The directory that holds every file of the model, in it or below it.
Dir == Path(".", 0)
\* A path that is neither a file nor a directory.
Nowhere == Path("z", 0)

InitialFileSystems ==
    { f \in UNION { [P -> {Image2, Image3, DicomDir, NotDicom, Malformed}] : P \in SUBSET {X0, X1, Y0} } :
        /\ X0 \in DOMAIN f
        /\ Cardinality(DOMAIN f) <= 2
        /\ f[X0] /= Malformed
        /\ X1 \in DOMAIN f => f[X1] \in {Image2, DicomDir, NotDicom}
        /\ Y0 \in DOMAIN f => f[Y0] \in {Image3, DicomDir, Malformed} }

\* The directory of test_rm_group_with_backup: a file that is not DICOM, two
\* DICOM files and a DICOMDIR.
fp_not_dicom == Path("not_dicom", 0)
fp_1 == Path("test_1.dcm", 0)
fp_2 == Path("test_2.dcm", 0)
fp_3 == Path("DICOMDIR", 0)

test_dir ==
    (fp_not_dicom :> NotDicom) @@ (fp_1 :> Image1) @@ (fp_2 :> Image2) @@ (fp_3 :> DicomDir)

VrArgs == { <<>>, <<"DA">>, <<"SQ", "SH">> }

GroupArgs ==
    { <<>>,
      << <<"0", "x", "0", "0", "1", "8">>, <<"1", "0">> >>,
      << <<"0", "X", "0", "0", "4", "0">>, <<"2">> >>,
      << <<"0", "x", "0", "0", "z", "z">> >> }

TagArgs ==
    { <<>>,
      << KwPatientName >>,
      << <<"0", "x", "0", "0", "4", "0", "0", "2", "7", "5">>, KwEchoTime,
         <<"2", "0", "0", "1", "3">> >>,
      << KwBogus >> }

Arguments ==
    [ d : {X0, Dir, Nowhere}, no_backup : BOOLEAN, rm_private : BOOLEAN,
      rm_vr : VrArgs, rm_group : GroupArgs, rm_tag : TagArgs ]

\* ------------------------------------------------------------------ program

Event(op, fp) == [op |-> op, fp |-> fp]

\* The file system with content written at path p.
Put(files, p, content) ==
    [q \in (DOMAIN files) \cup {p} |-> IF q = p THEN content ELSE files[q]]

is_file(files, pth) == pth \in DOMAIN files

is_dir(pth) == pth = Dir

\* The orders in which os.walk may list a set of files.
Orders(S) ==
    { o \in [1 .. Cardinality(S) -> S] : \A i, j \in DOMAIN o : o[i] = o[j] => i = j }

DicomUnder(files) == { fp \in DOMAIN files : is_dicom(files[fp]) }

\* The file is in the directory s of Dir, not in Dir itself.
InSub(p) == p.base = "s/y"

\* os.walk(pth), top down: the files of pth itself in the order the
\* directory lists them, then the files of its subdirectory; every file
\* under pth is listed once.
os_walk(files) ==
    { o \in Orders(DOMAIN files) :
        \A i, j \in DOMAIN o : (InSub(o[i]) /\ ~InSub(o[j])) => j < i }

\* The files of the walk that pydicom.misc.is_dicom accepts, in its order.
Sniffed(files, o) ==
    LET Accepts(p) == is_dicom(files[p]) IN SelectSeq(o, Accepts)

ErrNeither == "ERROR: %s is neither a file or directory\n"
ErrNoDicom == "ERROR: No valid DICOM files found, exiting\n"

\* Without the check for an empty list.
make_dcm_fp_list_unchecked(files, pth) ==
    IF is_file(files, pth)
    THEN { [exit |-> 0, err |-> "", list |-> IF is_dicom(files[pth]) THEN <<pth>> ELSE <<>>] }
    ELSE IF is_dir(pth)
    THEN { [exit |-> 0, err |-> "", list |-> Sniffed(files, o)] : o \in os_walk(files) }
    ELSE { [exit |-> 1, err |-> ErrNeither, list |-> <<>>] }

\* Without the descent into subdirectories.
make_dcm_fp_list_top(files, pth) ==
    LET lists ==
            IF is_file(files, pth)
            THEN { IF is_dicom(files[pth]) THEN <<pth>> ELSE <<>> }
            ELSE IF is_dir(pth)
            THEN { LET Top(p) == ~InSub(p) IN SelectSeq(Sniffed(files, o), Top)
                   : o \in os_walk(files) }
            ELSE {}
    IN  IF ~is_file(files, pth) /\ ~is_dir(pth)
        THEN { [exit |-> 1, err |-> ErrNeither, list |-> <<>>] }
        ELSE { IF Len(l) = 0
               THEN [exit |-> 1, err |-> ErrNoDicom, list |-> <<>>]
               ELSE [exit |-> 0, err |-> "", list |-> l] : l \in lists }

\* With the DICOMDIR files left out of the list.
make_dcm_fp_list_sans_dicomdir(files, pth) ==
    LET Image(p) == ~(files[p].sound /\ IsDicomDir(dcmread(files[p])))
        lists ==
            IF is_file(files, pth)
            THEN { IF is_dicom(files[pth]) /\ Image(pth) THEN <<pth>> ELSE <<>> }
            ELSE IF is_dir(pth)
            THEN { SelectSeq(Sniffed(files, o), Image) : o \in os_walk(files) }
            ELSE {}
    IN  IF ~is_file(files, pth) /\ ~is_dir(pth)
        THEN { [exit |-> 1, err |-> ErrNeither, list |-> <<>>] }
        ELSE { IF Len(l) = 0
               THEN [exit |-> 1, err |-> ErrNoDicom, list |-> <<>>]
               ELSE [exit |-> 0, err |-> "", list |-> l] : l \in lists }

\* make_dcm_fp_list: the outcomes it may have, as the list returned or the
\* message written before sys.exit(1).
make_dcm_fp_list(files, pth) ==
    LET lists ==
            IF is_file(files, pth)
            THEN { IF is_dicom(files[pth]) THEN <<pth>> ELSE <<>> }
            ELSE IF is_dir(pth) THEN { Sniffed(files, o) : o \in os_walk(files) }
            ELSE {}
    IN  IF ~is_file(files, pth) /\ ~is_dir(pth)
        THEN { [exit |-> 1, err |-> ErrNeither, list |-> <<>>] }
        ELSE { IF Len(l) = 0
               THEN [exit |-> 1, err |-> ErrNoDicom, list |-> <<>>]
               ELSE [exit |-> 0, err |-> "", list |-> l] : l \in lists }

\* An optional argument: None when omitted, else the one value given.
None == <<>>

Some(value) == <<value>>

\* With print's default end on every call.
progress_newline(count, total, message) ==
    LET q      == (1000 * count) \div total
        r      == (1000 * count) % total
        tenths == IF 2 * r > total THEN q + 1
                  ELSE IF 2 * r < total THEN q
                  ELSE IF q % 2 = 0 THEN q ELSE q + 1
    IN  [message |-> IF message = None THEN "" ELSE message[1],
         percents |-> tenths \div 10,
         end |-> "\n"]

\* progress: the message ("" for None), then the percentage rounded to one
\* decimal (half to even) and printed by %3d as its integer part; print ends
\* the line with a newline when total == count, else with a carriage return.
progress(count, total, message) ==
    LET q      == (1000 * count) \div total
        r      == (1000 * count) % total
        tenths == IF 2 * r > total THEN q + 1
                  ELSE IF 2 * r < total THEN q
                  ELSE IF q % 2 = 0 THEN q ELSE q + 1
    IN  [message |-> IF message = None THEN "" ELSE message[1],
         percents |-> tenths \div 10,
         end |-> IF total = count THEN "\n" ELSE "\r"]

\* "* removing tags from %d files" % (len(fp_list))
RemovingTags(n) == "* removing tags from " \o ToString(n) \o " files"

\* What argparse prints for -h, by its first words.
Usage == [message |-> "usage: dcmrmel [-h]", end |-> "\n"]

\* The namespace when sys.argv holds no argument: none is ever built.
NoArguments ==
    [d |-> Nowhere, no_backup |-> FALSE, rm_private |-> FALSE,
     rm_vr |-> <<>>, rm_group |-> <<>>, rm_tag |-> <<>>]

\* The first file of the list, whatever the counter.
fp_first == fp_list[1]

\* The loop variable fp of main.
fp == fp_list[fp_cnt]

Init ==
    /\ fs \in InitialFileSystems
    /\ \/ argv = <<"dcmrmel">> /\ args = NoArguments
       \/ argv = <<"dcmrmel", "d">> /\ args \in Arguments
    /\ run = 1
    /\ pc = "main"
    /\ fp_list = <<>>
    /\ fp_cnt = 0
    /\ ds = NoDataset
    /\ stdout = <<>>
    /\ stderr = <<>>
    /\ fs0 = fs
    /\ inp = NotDicom
    /\ log = <<>>
    /\ saves = <<>>
    /\ walked = <<>>

\* Without the test on sys.argv: the arguments are parsed as they are.
ParseArgsAsGiven ==
    /\ pc = "main"
    /\ pc' = "start"
    /\ UNCHANGED <<fs, args, run, fp_list, fp_cnt, ds, stdout, stderr, fs0, inp, log, saves,
                   argv, walked>>

\* main, lines 191-194: with no argument, -h is appended to sys.argv and
\* parse_args prints the help on standard output and exits with code 0
ParseArgs ==
    /\ pc = "main"
    /\ IF Len(argv) = 1
       THEN /\ argv' = Append(argv, "-h")
            /\ stdout' = Append(stdout, Usage)
            /\ pc' = "exit0"
       ELSE /\ pc' = "start"
            /\ UNCHANGED <<argv, stdout>>
    /\ UNCHANGED <<fs, args, run, fp_list, fp_cnt, ds, stderr, fs0, inp, log, saves, walked>>

\* main, line 196: fp_list = make_dcm_fp_list(args.d)
Discover ==
    /\ pc = "start"
    /\ \E r \in make_dcm_fp_list(fs, args.d) :
        IF r.exit = 1
        THEN /\ stderr' = Append(stderr, r.err)
             /\ pc' = "exit1"
             /\ UNCHANGED fp_list
        ELSE /\ fp_list' = r.list
             /\ pc' = "for"
             /\ UNCHANGED stderr
    /\ UNCHANGED <<fs, args, run, fp_cnt, ds, stdout, fs0, inp, log, saves, argv, walked>>

\* main, lines 198-203: the next file of the list, and its progress report
Progress ==
    /\ pc = "for"
    /\ fp_cnt < Len(fp_list)
    /\ fp_cnt' = fp_cnt + 1
    /\ stdout' = Append(stdout, progress(fp_cnt + 1, Len(fp_list),
                                          Some(RemovingTags(Len(fp_list)))))
    /\ pc' = "dcmread"
    /\ UNCHANGED <<fs, args, run, fp_list, ds, stderr, fs0, inp, log, saves, argv, walked>>

\* main: the list is exhausted, the command ends with exit code 0
Finish ==
    /\ pc = "for"
    /\ fp_cnt = Len(fp_list)
    /\ pc' = "done"
    /\ UNCHANGED <<fs, args, run, fp_list, fp_cnt, ds, stdout, stderr, fs0, inp, log, saves, argv, walked>>

\* main, lines 205-208: read the file; a DICOMDIR is skipped
Read ==
    /\ pc = "dcmread"
    /\ IF ~fs[fp].sound
       THEN /\ pc' = "raised"
            /\ log' = Append(log, Event("dcmread_failed", fp))
            /\ UNCHANGED <<ds, inp>>
       ELSE /\ ds' = dcmread(fs[fp])
            /\ inp' = fs[fp]
            /\ log' = Append(log, Event("dcmread", fp))
            /\ pc' = IF IsDicomDir(ds') THEN "for" ELSE "backup"
    /\ walked' = <<>>
    /\ UNCHANGED <<fs, args, run, fp_list, fp_cnt, stdout, stderr, fs0, saves, argv>>

\* A copy that fails: OSError is raised and ends the command.
BackupUnchecked ==
    /\ pc = "backup"
    /\ IF args.no_backup
       THEN /\ pc' = "private"
            /\ UNCHANGED <<fs, log>>
       ELSE \/ /\ fs' = Put(fs, Bak(fp), fs[fp])
               /\ log' = Append(log, Event("copy", fp))
               /\ pc' = "private"
            \/ /\ fs' \in {fs, Put(fs, Bak(fp), NotDicom)}
               /\ log' = Append(log, Event("copy_failed", fp))
               /\ pc' = "private"
    /\ UNCHANGED <<args, run, fp_list, fp_cnt, ds, stdout, stderr, fs0, inp, saves, argv, walked>>

BackupAlways ==
    /\ pc = "backup"
    /\ \/ /\ fs' = Put(fs, Bak(fp), fs[fp])
          /\ log' = Append(log, Event("copy", fp))
          /\ pc' = "private"
       \/ /\ fs' \in {fs, Put(fs, Bak(fp), NotDicom)}
          /\ log' = Append(log, Event("copy_failed", fp))
          /\ pc' = "raised"
    /\ UNCHANGED <<args, run, fp_list, fp_cnt, ds, stdout, stderr, fs0, inp, saves, argv, walked>>

\* A copy that leaves a file already at the backup path as it is.
BackupKeepExisting ==
    /\ pc = "backup"
    /\ IF args.no_backup
       THEN /\ pc' = "private"
            /\ UNCHANGED <<fs, log>>
       ELSE \/ /\ fs' = IF Bak(fp) \in DOMAIN fs THEN fs ELSE Put(fs, Bak(fp), fs[fp])
               /\ log' = Append(log, Event("copy", fp))
               /\ pc' = "private"
            \/ /\ fs' \in {fs, Put(fs, Bak(fp), NotDicom)}
               /\ log' = Append(log, Event("copy_failed", fp))
               /\ pc' = "raised"
    /\ UNCHANGED <<args, run, fp_list, fp_cnt, ds, stdout, stderr, fs0, inp, saves, argv, walked>>

\* The list made as the loop goes: the copy joins the files to process.
BackupListed ==
    /\ pc = "backup"
    /\ IF args.no_backup
       THEN /\ pc' = "private"
            /\ UNCHANGED <<fs, log, fp_list>>
       ELSE \/ /\ fs' = Put(fs, Bak(fp), fs[fp])
               /\ fp_list' = IF InList(Bak(fp), fp_list) THEN fp_list
                              ELSE Append(fp_list, Bak(fp))
               /\ log' = Append(log, Event("copy", fp))
               /\ pc' = "private"
            \/ /\ fs' \in {fs, Put(fs, Bak(fp), NotDicom)}
               /\ log' = Append(log, Event("copy_failed", fp))
               /\ pc' = "raised"
               /\ UNCHANGED fp_list
    /\ UNCHANGED <<args, run, fp_cnt, ds, stdout, stderr, fs0, inp, saves, argv, walked>>

\* main, lines 210-212: shutil.copy(fp, fp_bak) unless --no-backup; a copy
\* that fails raises OSError, with the target untouched or left truncated
Backup ==
    /\ pc = "backup"
    /\ IF args.no_backup
       THEN /\ pc' = "private"
            /\ UNCHANGED <<fs, log>>
       ELSE \/ /\ fs' = Put(fs, Bak(fp), fs[fp])
               /\ log' = Append(log, Event("copy", fp))
               /\ pc' = "private"
            \/ /\ fs' \in {fs, Put(fs, Bak(fp), NotDicom)}
               /\ log' = Append(log, Event("copy_failed", fp))
               /\ pc' = "raised"
    /\ UNCHANGED <<args, run, fp_list, fp_cnt, ds, stdout, stderr, fs0, inp, saves, argv, walked>>

\* main, lines 214-215
RemovePrivate ==
    /\ pc = "private"
    /\ IF args.rm_private
       THEN /\ ds' = [ds EXCEPT !.dataset = remove_private_tags(@)]
            /\ log' = Append(log, Event("rm_private", fp))
            /\ walked' = Append(walked, Walked("dataset", ds.dataset, "private", <<>>))
       ELSE UNCHANGED <<ds, log, walked>>
    /\ pc' = "vr"
    /\ UNCHANGED <<fs, args, run, fp_list, fp_cnt, stdout, stderr, fs0, inp, saves, argv>>

\* The VR pass on the main dataset alone.
RemoveVrMainOnly ==
    /\ pc = "vr"
    /\ IF args.rm_vr /= <<>>
       THEN /\ ds' = [ds EXCEPT !.dataset = remove_vr_tags(@, args.rm_vr)]
            /\ log' = Append(log, Event("rm_vr", fp))
            /\ walked' = Append(walked, Walked("dataset", ds.dataset, "vr", args.rm_vr))
       ELSE UNCHANGED <<ds, log, walked>>
    /\ pc' = "group"
    /\ UNCHANGED <<fs, args, run, fp_list, fp_cnt, stdout, stderr, fs0, inp, saves, argv>>

\* main, lines 217-219 (None is the empty list: nargs="+" gives no empty list)
RemoveVr ==
    /\ pc = "vr"
    /\ IF args.rm_vr /= <<>>
       THEN /\ ds' = [file_meta |-> remove_vr_tags(ds.file_meta, args.rm_vr),
                      dataset |-> remove_vr_tags(ds.dataset, args.rm_vr)]
            /\ log' = Append(log, Event("rm_vr", fp))
            /\ walked' = walked \o << Walked("dataset", ds.dataset, "vr", args.rm_vr),
                                      Walked("file_meta", ds.file_meta, "vr", args.rm_vr) >>
       ELSE UNCHANGED <<ds, log, walked>>
    /\ pc' = "group"
    /\ UNCHANGED <<fs, args, run, fp_list, fp_cnt, stdout, stderr, fs0, inp, saves, argv>>

\* The group pass followed at once by a write-back.
RemoveGroupAndWrite ==
    /\ pc = "group"
    /\ IF args.rm_group = <<>>
       THEN /\ pc' = "tag"
            /\ UNCHANGED <<fs, ds, log, walked, saves>>
       ELSE IF ~GroupsParse(args.rm_group)
       THEN /\ pc' = "raised"
            /\ log' = Append(log, Event("ValueError", fp))
            /\ UNCHANGED <<fs, ds, walked, saves>>
       ELSE /\ ds' = [file_meta |-> remove_group_tags(ds.file_meta, args.rm_group),
                      dataset |-> remove_group_tags(ds.dataset, args.rm_group)]
            /\ fs' = Put(fs, fp, save_as(ds'))
            /\ log' = log \o << Event("rm_group", fp), Event("save_as", fp) >>
            /\ saves' = Append(saves, [run |-> run, fp |-> fp, read |-> inp,
                                       written |-> save_as(ds')])
            /\ walked' = walked \o
                  << Walked("dataset", ds.dataset, "group", GroupRm(args.rm_group)),
                     Walked("file_meta", ds.file_meta, "group", GroupRm(args.rm_group)) >>
            /\ pc' = "tag"
    /\ UNCHANGED <<args, run, fp_list, fp_cnt, stdout, stderr, fs0, inp, argv>>

\* main, lines 221-223; int(group, 16) raises ValueError before the walk
RemoveGroup ==
    /\ pc = "group"
    /\ IF args.rm_group = <<>>
       THEN /\ pc' = "tag"
            /\ UNCHANGED <<ds, log, walked>>
       ELSE IF ~GroupsParse(args.rm_group)
       THEN /\ pc' = "raised"
            /\ log' = Append(log, Event("ValueError", fp))
            /\ UNCHANGED <<ds, walked>>
       ELSE /\ ds' = [file_meta |-> remove_group_tags(ds.file_meta, args.rm_group),
                      dataset |-> remove_group_tags(ds.dataset, args.rm_group)]
            /\ log' = Append(log, Event("rm_group", fp))
            /\ walked' = walked \o
                  << Walked("dataset", ds.dataset, "group", GroupRm(args.rm_group)),
                     Walked("file_meta", ds.file_meta, "group", GroupRm(args.rm_group)) >>
            /\ pc' = "tag"
    /\ UNCHANGED <<fs, args, run, fp_list, fp_cnt, stdout, stderr, fs0, inp, saves, argv>>

\* main, lines 225-231; pydicom.tag.Tag raises ValueError before the walk
RemoveTag ==
    /\ pc = "tag"
    /\ IF args.rm_tag = <<>>
       THEN /\ pc' = "save"
            /\ UNCHANGED <<ds, log, walked>>
       ELSE IF ~TagsParse(args.rm_tag)
       THEN /\ pc' = "raised"
            /\ log' = Append(log, Event("ValueError", fp))
            /\ UNCHANGED <<ds, walked>>
       ELSE /\ ds' = [file_meta |-> remove_tags(ds.file_meta, TagToRmList(args.rm_tag)),
                      dataset |-> remove_tags(ds.dataset, TagToRmList(args.rm_tag))]
            /\ log' = Append(log, Event("rm_tag", fp))
            /\ walked' = walked \o
                  << Walked("dataset", ds.dataset, "tag", TagToRmList(args.rm_tag)),
                     Walked("file_meta", ds.file_meta, "tag", TagToRmList(args.rm_tag)) >>
            /\ pc' = "save"
    /\ UNCHANGED <<fs, args, run, fp_list, fp_cnt, stdout, stderr, fs0, inp, saves, argv>>

\* main, line 233: ds.save_as(fp)
Save ==
    /\ pc = "save"
    /\ fs' = Put(fs, fp, save_as(ds))
    /\ log' = Append(log, Event("save_as", fp))
    /\ saves' = Append(saves, [run |-> run, fp |-> fp, read |-> inp, written |-> save_as(ds)])
    /\ pc' = "for"
    /\ UNCHANGED <<args, run, fp_list, fp_cnt, ds, stdout, stderr, fs0, inp, argv, walked>>

\* The user invokes the command again, with the same arguments.
NextRun ==
    /\ pc = "done"
    /\ run < MaxRuns
    /\ Cardinality(DicomUnder(fs)) <= MaxList
    /\ run' = run + 1
    /\ pc' = "main"
    /\ fp_list' = <<>>
    /\ fp_cnt' = 0
    /\ ds' = NoDataset
    /\ stdout' = <<>>
    /\ stderr' = <<>>
    /\ fs0' = fs
    /\ inp' = NotDicom
    /\ log' = <<>>
    /\ walked' = <<>>
    /\ UNCHANGED <<fs, args, saves, argv>>

\* test_rm_group_with_backup: dcmrmel test_dir --rm-group 0x0018, and the
\* same with --no-backup.
InitScenario ==
    /\ fs = test_dir
    /\ argv = <<"dcmrmel", "d">>
    /\ args \in [ d : {Dir}, no_backup : BOOLEAN, rm_private : {FALSE}, rm_vr : {<<>>},
                   rm_group : { << <<"0", "x", "0", "0", "1", "8">> >> }, rm_tag : {<<>>} ]
    /\ run = 1
    /\ pc = "main"
    /\ fp_list = <<>>
    /\ fp_cnt = 0
    /\ ds = NoDataset
    /\ stdout = <<>>
    /\ stderr = <<>>
    /\ fs0 = fs
    /\ inp = NotDicom
    /\ log = <<>>
    /\ saves = <<>>
    /\ walked = <<>>

\* One invocation of the command.
NextScenario ==
    \/ ParseArgs
    \/ Discover
    \/ Progress
    \/ Finish
    \/ Read
    \/ Backup
    \/ RemovePrivate
    \/ RemoveVr
    \/ RemoveGroup
    \/ RemoveTag
    \/ Save

SpecScenario == InitScenario /\ [][NextScenario]_vars

\* progress on its own, as test_progress and the loop of main call it: a
\* total, a message or none, and the counter running from 0 or from 1 up to
\* the total.  args holds the arguments of the calls, fp_cnt the counter.
InitProgress ==
    /\ args \in [ first : {0, 1}, total : 1 .. MaxTotal,
                   message : {None, Some("doing thing")} ]
    /\ fp_cnt = args.first
    /\ pc = "progress"
    /\ stdout = <<>>
    /\ fs = <<>>
    /\ argv = <<"dcmrmel">>
    /\ run = 1
    /\ fp_list = <<>>
    /\ ds = NoDataset
    /\ stderr = <<>>
    /\ fs0 = fs
    /\ inp = NotDicom
    /\ log = <<>>
    /\ saves = <<>>
    /\ walked = <<>>

\* progress(count, total, message) with the next value of the counter
CallProgress ==
    /\ pc = "progress"
    /\ fp_cnt <= args.total
    /\ stdout' = Append(stdout, progress(fp_cnt, args.total, args.message))
    /\ fp_cnt' = fp_cnt + 1
    /\ UNCHANGED <<fs, args, run, pc, fp_list, ds, stderr, fs0, inp, log, saves, argv, walked>>

NextProgress == CallProgress

SpecProgress == InitProgress /\ [][NextProgress]_vars

\* The four passes of main on the main dataset, by name.
PassNames == {"private", "vr", "group", "tag"}

\* main, lines 214-231, on the main dataset: the pass of one mode, which
\* runs when the mode is asked for and leaves the dataset as it is otherwise.
pass(kind, dataset, a) ==
    CASE kind = "private" ->
            IF a.rm_private THEN remove_private_tags(dataset) ELSE dataset
      [] kind = "vr" ->
            IF a.rm_vr /= <<>> THEN remove_vr_tags(dataset, a.rm_vr) ELSE dataset
      [] kind = "group" ->
            IF a.rm_group /= <<>> THEN remove_group_tags(dataset, a.rm_group) ELSE dataset
      [] kind = "tag" ->
            IF a.rm_tag /= <<>> THEN remove_tags(dataset, TagToRmList(a.rm_tag)) ELSE dataset

\* The passes in the order of main: private, VR, group, tag.
main_passes(dataset, a) ==
    pass("tag", pass("group", pass("vr", pass("private", dataset, a), a), a), a)

\* The passes on their own, in any order: a main dataset, a combination of
\* the four modes whose strings convert, and an order of the passes.  args
\* holds them, ds the dataset as the passes leave it, fp_cnt the number of
\* passes made, log each pass with the dataset before and after it.
InitPasses ==
    /\ args \in [ dataset : {ds_1, ds_2, ds_3}, rm_private : BOOLEAN, rm_vr : VrArgs,
                   rm_group : { g \in GroupArgs : GroupsParse(g) },
                   rm_tag : { t \in TagArgs : TagsParse(t) },
                   order : Orders(PassNames) ]
    /\ ds = [file_meta |-> NoElements, dataset |-> args.dataset]
    /\ fp_cnt = 0
    /\ pc = "passes"
    /\ stdout = <<>>
    /\ fs = <<>>
    /\ argv = <<"dcmrmel", "d">>
    /\ run = 1
    /\ fp_list = <<>>
    /\ stderr = <<>>
    /\ fs0 = fs
    /\ inp = NotDicom
    /\ log = <<>>
    /\ saves = <<>>
    /\ walked = <<>>

\* The next pass of the order, on the dataset as the passes before it left it
ApplyPass ==
    /\ pc = "passes"
    /\ fp_cnt < Cardinality(PassNames)
    /\ ds' = [ds EXCEPT !.dataset = pass(args.order[fp_cnt + 1], @, args)]
    /\ log' = Append(log, [op |-> args.order[fp_cnt + 1], before |-> ds.dataset,
                            after |-> ds'.dataset])
    /\ fp_cnt' = fp_cnt + 1
    /\ UNCHANGED <<fs, args, run, pc, fp_list, stdout, stderr, fs0, inp, saves, argv, walked>>

NextPasses == ApplyPass

SpecPasses == InitPasses /\ [][NextPasses]_vars

Next ==
    \/ ParseArgs
    \/ Discover
    \/ Progress
    \/ Finish
    \/ Read
    \/ Backup
    \/ RemovePrivate
    \/ RemoveVr
    \/ RemoveGroup
    \/ RemoveTag
    \/ Save
    \/ NextRun

Spec == Init /\ [][Next]_vars

\* ------------------------------------------------------------------ claims

Range(list) == { list[i] : i \in DOMAIN list }

\* The file is a DICOMDIR: the parser accepts it and its file-meta names the
\* Media Storage Directory class.
IsDicomDirFile(file) == is_dicom(file) /\ file.sound /\ IsDicomDir(dcmread(file))

Mutations == {"rm_private", "rm_vr", "rm_group", "rm_tag", "save_as"}

\* C1 (as claimed): after a run with backup, every discovered file that was
\* not a DICOMDIR has, at <name>.bak, a file equal to what it held when the
\* run started.
C1_BackupOfEveryFile ==
    (pc = "done" /\ ~args.no_backup) =>
        \A f \in Range(fp_list) :
            ~IsDicomDirFile(fs0[f]) =>
                Bak(f) \in DOMAIN fs /\ fs[Bak(f)] = fs0[f]

\* C2: with backup enabled, every removal pass and every write-back of a
\* file comes after the successful copy of that file in the same loop
\* iteration; a failed copy is the last operation of the run, which ends
\* with the error raised, the file still holding the bytes that were read
\* and the loaded dataset untouched.
C2_CopyBeforeMutation ==
    ~args.no_backup =>
        \A i \in DOMAIN log :
            /\ log[i].op \in Mutations =>
                  \E j \in 1 .. (i - 1) :
                      /\ log[j] = Event("copy", log[i].fp)
                      /\ \A k \in (j + 1) .. (i - 1) :
                            log[k].op \in Mutations /\ log[k].fp = log[i].fp
            /\ log[i].op = "copy_failed" =>
                  /\ i = Len(log)
                  /\ pc = "raised"
                  /\ fs[log[i].fp] = inp
                  /\ ds = dcmread(inp)

C2_Witness ==
    /\ log /= <<>>
    /\ log[Len(log)].op = "copy_failed"
    /\ fp_cnt = 2
    /\ \E i \in DOMAIN log : log[i].op = "save_as"

\* C3 (as claimed): a discovered DICOMDIR is never copied, passed to a
\* removal pass or written, no <name>.bak appears for it, and it holds the
\* same bytes throughout the run.
C3_DicomDirUntouched ==
    pc = "done" =>
      \A f \in Range(fp_list) :
        IsDicomDirFile(fs0[f]) =>
            /\ fs[f] = fs0[f]
            /\ \A i \in DOMAIN log : log[i].fp = f => log[i].op = "dcmread"
            /\ Bak(f) \notin DOMAIN fs0 => Bak(f) \notin DOMAIN fs

\* The elements of a dataset at every depth, each with its path: the tags
\* and item numbers that lead to it.
RECURSIVE Nodes(_, _)
Nodes(dataset, prefix) ==
    UNION { { [path |-> prefix \o <<t>>, VR |-> dataset[t].VR, VL |-> dataset[t].VL,
               value |-> dataset[t].value] }
            \cup UNION { Nodes(dataset[t].items[i], prefix \o <<t, i>>) :
                           i \in DOMAIN dataset[t].items }
          : t \in DOMAIN dataset }

NodeTag(n) == n.path[Len(n.path)]

\* m is n or a sequence element that encloses n.
Encloses(m, n) ==
    Len(m.path) <= Len(n.path) /\ SubSeq(n.path, 1, Len(m.path)) = m.path

\* The elements of nodes that neither are selected themselves nor lie
\* inside a selected sequence element; Sel(n) tells whether n is selected.
Surviving(nodes, Sel(_)) ==
    LET selected == { m \in nodes : Sel(m) }
    IN  { n \in nodes : \A m \in selected : ~Encloses(m, n) }

\* The value of FileMetaInformationGroupLength left out of the comparison.
SansGroupLength(nodes) ==
    { IF n.path = <<FileMetaInformationGroupLength>> THEN [n EXCEPT !.value = ""] ELSE n
      : n \in nodes }

OnlyVr    == ~args.rm_private /\ args.rm_vr /= <<>> /\ args.rm_group = <<>> /\ args.rm_tag = <<>>
OnlyGroup == ~args.rm_private /\ args.rm_vr = <<>> /\ args.rm_group /= <<>> /\ args.rm_tag = <<>>
OnlyTag   == ~args.rm_private /\ args.rm_vr = <<>> /\ args.rm_group = <<>> /\ args.rm_tag /= <<>>

\* C4 (as claimed): with --rm-vr alone, the written file holds no element
\* with a requested VR, and every other element of the file read is in it,
\* identical.
C4_OthersIdentical ==
    OnlyVr =>
        \A k \in DOMAIN saves :
            LET r == saves[k].read
                w == saves[k].written
            IN  \A part \in { <<r.dataset, w.dataset>>, <<r.file_meta, w.file_meta>> } :
                    /\ \A n \in Nodes(part[2], <<>>) : ~InList(n.VR, args.rm_vr)
                    /\ \A n \in Nodes(part[1], <<>>) :
                          ~InList(n.VR, args.rm_vr) => n \in Nodes(part[2], <<>>)

\* C4 (amended): with --rm-vr alone, the elements of the written file are
\* the elements of the file read whose VR is not requested and that lie in
\* no sequence element that was removed, each with the same tag, VR and
\* value, in the main dataset and in file-meta; only the value of
\* FileMetaInformationGroupLength, when kept, is computed anew.
C4_VrRemoval ==
    OnlyVr =>
        \A k \in DOMAIN saves :
            LET r == saves[k].read
                w == saves[k].written
                Sel(n) == InList(n.VR, args.rm_vr)
            IN  /\ Nodes(w.dataset, <<>>) = Surviving(Nodes(r.dataset, <<>>), Sel)
                /\ SansGroupLength(Nodes(w.file_meta, <<>>))
                     = SansGroupLength(Surviving(Nodes(r.file_meta, <<>>), Sel))
                /\ \A n \in Nodes(w.dataset, <<>>) \cup Nodes(w.file_meta, <<>>) : ~Sel(n)

\* A file with nested sequences is written without them and without the
\* SH element of its file-meta, its other elements kept.
C4_Witness ==
    /\ OnlyVr
    /\ \E k \in DOMAIN saves :
          /\ saves[k].read = Image3
          /\ ImplementationVersionName \notin DOMAIN saves[k].written.file_meta
          /\ RequestAttributesSequence \notin DOMAIN saves[k].written.dataset
          /\ PatientName \in DOMAIN saves[k].written.dataset

\* The group numbers that the --rm-group strings denote.
RequestedGroups == { int16(args.rm_group[i]).val : i \in DOMAIN args.rm_group }

InGroups(n) == TagGroup(NodeTag(n)) \in RequestedGroups

\* C5 (as claimed): with --rm-group alone, only elements whose group is
\* requested are removed: every other element of the file read is in the
\* written file, unchanged.
C5_OnlyGroupElementsRemoved ==
    OnlyGroup =>
        \A k \in DOMAIN saves :
            LET r == saves[k].read
                w == saves[k].written
            IN  \A part \in { <<r.dataset, w.dataset>>, <<r.file_meta, w.file_meta>> } :
                    \A n \in Nodes(part[1], <<>>) :
                        ~InGroups(n) => n \in Nodes(part[2], <<>>)

\* C5 (amended): with --rm-group alone, each string is read as a hexadecimal
\* number ("0x0018" is 24, "10" is 16); the elements of the written file
\* are the elements of the file read whose group is none of these numbers
\* and that lie in no sequence element that was removed, unchanged; a file
\* with no element of the requested groups is written back as it was.
C5_GroupRemoval ==
    OnlyGroup =>
        /\ args.rm_group = << <<"0", "x", "0", "0", "1", "8">>, <<"1", "0">> >>
              => RequestedGroups = {24, 16}
        /\ \A k \in DOMAIN saves :
              LET r == saves[k].read
                  w == saves[k].written
              IN  /\ Nodes(w.dataset, <<>>) = Surviving(Nodes(r.dataset, <<>>), InGroups)
                  /\ Nodes(w.file_meta, <<>>) = Surviving(Nodes(r.file_meta, <<>>), InGroups)
                  /\ (\A n \in Nodes(r.dataset, <<>>) \cup Nodes(r.file_meta, <<>>) : ~InGroups(n))
                        => w = r

\* One file loses its elements of groups 0x0018 and 0x0010, at both depths
\* where it has them, and keeps the others.
C5_Witness ==
    /\ OnlyGroup
    /\ RequestedGroups = {24, 16}
    /\ \E k \in DOMAIN saves :
          /\ saves[k].read = Image3
          /\ DOMAIN saves[k].written.dataset = {PrivateCreator, RequestAttributesSequence}
          /\ saves[k].written.file_meta = Image3.file_meta

\* The tags that the --rm-tag strings denote.
RequestedTags == { Tag(args.rm_tag[i]).val : i \in DOMAIN args.rm_tag }

InTags(n) == NodeTag(n) \in RequestedTags

\* C6 (as claimed): with --rm-tag alone, the elements of the written file
\* are exactly the elements of the file read whose tag is not requested,
\* unchanged.
C6_ExactlyTheTags ==
    OnlyTag =>
        \A k \in DOMAIN saves :
            LET r == saves[k].read
                w == saves[k].written
            IN  /\ Nodes(w.dataset, <<>>) = { n \in Nodes(r.dataset, <<>>) : ~InTags(n) }
                /\ Nodes(w.file_meta, <<>>) = { n \in Nodes(r.file_meta, <<>>) : ~InTags(n) }

\* C6 (amended): with --rm-tag alone, a keyword denotes its dictionary tag
\* and a numeric string the tag of that hexadecimal number; the elements of
\* the written file are the elements of the file read whose tag is not
\* requested and that lie in no sequence element that was removed, each
\* unchanged, in the main dataset and in file-meta; only the value of
\* FileMetaInformationGroupLength, when kept, is computed anew.
C6_TagRemoval ==
    OnlyTag =>
        /\ args.rm_tag = << KwPatientName >> => RequestedTags = {TupleTag(16, 16)}
        /\ KwEchoTime \in Range(args.rm_tag)
              => RequestedTags = {TupleTag(64, 629), TupleTag(24, 129), TupleTag(2, 19)}
        /\ \A k \in DOMAIN saves :
              LET r == saves[k].read
                  w == saves[k].written
              IN  /\ Nodes(w.dataset, <<>>) = Surviving(Nodes(r.dataset, <<>>), InTags)
                  /\ SansGroupLength(Nodes(w.file_meta, <<>>))
                       = SansGroupLength(Surviving(Nodes(r.file_meta, <<>>), InTags))

\* --rm-tag PatientName on a file that has the element at two depths.
C6_Witness ==
    /\ OnlyTag
    /\ args.rm_tag = << KwPatientName >>
    /\ \E k \in DOMAIN saves :
          /\ saves[k].read = Image3
          /\ DOMAIN saves[k].written.dataset = {PrivateCreator, RequestAttributesSequence}
          /\ saves[k].written.file_meta = Image3.file_meta

\* C7 (as claimed): a second run with the same arguments changes nothing
\* that the first run left: the file system after it is the file system
\* before it.
C7_SecondRunNoOp ==
    (run >= 2 /\ pc = "done") => fs = fs0

\* C7 (amended): a file whose bytes were written by an earlier write-back
\* with the same arguments is written back with the same bytes; the run is
\* no no-op beyond that: with backup enabled it overwrites or creates the
\* .bak of every file it processes.
C7_CleanedFileRewrittenEqual ==
    /\ \A j \in DOMAIN saves :
          (\E i \in 1 .. (j - 1) : saves[i].written = saves[j].read)
              => saves[j].written = saves[j].read
    /\ ~args.no_backup =>
          \A i \in DOMAIN log :
              log[i].op = "save_as" =>
                  \E j \in 1 .. (i - 1) : log[j] = Event("copy", log[i].fp)

\* The second run writes back a file that the first run had changed.
C7_Witness ==
    \E j \in DOMAIN saves :
        /\ saves[j].run = 2
        /\ \E i \in 1 .. (j - 1) :
              /\ saves[i].run = 1
              /\ saves[i].fp = saves[j].fp
              /\ saves[i].written = saves[j].read
              /\ saves[i].read /= saves[i].written
              /\ ~args.no_backup

\* C8: with --no-backup no file is created, nothing is copied, and the only
\* files whose content changes are files of the list, not DICOMDIR, that
\* were written back.
C8_NoBackupNoBak ==
    args.no_backup =>
        /\ DOMAIN fs = DOMAIN fs0
        /\ \A i \in DOMAIN log : log[i].op \notin {"copy", "copy_failed"}
        /\ \A p \in DOMAIN fs :
              fs[p] /= fs0[p] =>
                  /\ p \in Range(fp_list)
                  /\ ~IsDicomDirFile(fs0[p])
                  /\ \E i \in DOMAIN log : log[i] = Event("save_as", p)

C8_Witness ==
    /\ args.no_backup
    /\ args.d = Dir
    /\ pc = "done"
    /\ Len(fp_list) = 2
    /\ \A p \in DOMAIN fs : fs[p] /= fs0[p]

\* C9 (as claimed): the files of the target directory that are not DICOM
\* are not read, copied or written, hold the same bytes throughout the run,
\* and are not counted in the progress total.
C9_NonDicomUntouched ==
    (args.d = Dir /\ pc = "done") =>
        \A p \in DOMAIN fs0 :
            ~is_dicom(fs0[p]) =>
                /\ fs[p] = fs0[p]
                /\ \A i \in DOMAIN log : log[i].fp /= p
                /\ \A i \in DOMAIN stdout :
                      stdout[i].message = RemovingTags(Cardinality(DicomUnder(fs0)))

\* C10: make_dcm_fp_list ends the command with exit code 1 exactly when the
\* path is neither a file nor a directory or no DICOM file is found under
\* it, with the one message on standard error, nothing on standard output
\* and no file created or changed; otherwise it returns a non-empty list and
\* writes nothing to standard error.
C10_DiscoveryFailsExactly ==
    LET neither == ~is_file(fs0, args.d) /\ ~is_dir(args.d)
        found   == IF is_dir(args.d) THEN DicomUnder(fs0)
                   ELSE { p \in DicomUnder(fs0) : p = args.d }
    IN  /\ pc = "exit1" =>
              /\ neither \/ found = {}
              /\ stderr = << IF neither THEN ErrNeither ELSE ErrNoDicom >>
              /\ stdout = <<>>
              /\ fs = fs0
              /\ log = <<>>
        /\ pc \notin {"main", "exit0", "start", "exit1"} =>
              /\ ~neither
              /\ found /= {}
              /\ Range(fp_list) = found
              /\ stderr = <<>>

C10_Witness ==
    /\ pc = "exit1"
    /\ args.d = Dir
    /\ stderr = <<ErrNoDicom>>
    /\ run = 1

\* The operations that raise: the parser rejects the file, the copy fails,
\* a selector string does not convert.
Failures == {"dcmread_failed", "copy_failed", "ValueError"}

\* The write-backs of this run to path p, as indices of saves.
WrittenBack(p) == { j \in DOMAIN saves : saves[j].run = run /\ saves[j].fp = p }

\* C11 (as claimed): an error raised while a file is processed ends the run
\* there: no step follows it, no later file of the list is read, backed up
\* or rewritten, and every file processed earlier holds what its write-back
\* left.
C11_AbortKeepsEarlierFiles ==
    pc = "raised" =>
        /\ ~ENABLED Next
        /\ log /= <<>>
        /\ log[Len(log)].op \in Failures
        /\ log[Len(log)].fp = fp
        /\ \A i \in 1 .. (Len(log) - 1) : log[i].op \notin Failures
        /\ \A k \in (fp_cnt + 1) .. Len(fp_list) :
              \A i \in DOMAIN log : log[i].fp /= fp_list[k]
        /\ \A k \in 1 .. (fp_cnt - 1) :
              \A j \in WrittenBack(fp_list[k]) : fs[fp_list[k]] = saves[j].written

\* C12: in every file written back, neither the main dataset nor file-meta
\* holds an element selected by a requested VR, group or tag pass; with
\* --rm-private the main dataset holds no private element at any depth; the
\* main dataset is what the file read held less the elements selected by
\* any requested mode (and those inside a removed sequence), and file-meta
\* is what the file read held less the elements selected by the VR, group
\* and tag passes only, so that --rm-private alone leaves it as it was.
\* Stated of the entry that a write-back has just appended to saves: every
\* entry of saves is that entry in the state that follows its write-back.
C12_PassesOnBothParts ==
    LET groups == RequestedGroups
        tags   == RequestedTags
        SelectedByPass(n) ==
            \/ InList(n.VR, args.rm_vr)
            \/ TagGroup(NodeTag(n)) \in groups
            \/ NodeTag(n) \in tags
        SelectedPrivate(n) == args.rm_private /\ is_private(NodeTag(n))
        SelectedAny(n) == SelectedByPass(n) \/ SelectedPrivate(n)
    IN  (pc = "for" /\ saves /= <<>>) =>
            LET r  == saves[Len(saves)].read
                w  == saves[Len(saves)].written
                wd == Nodes(w.dataset, <<>>)
                wm == Nodes(w.file_meta, <<>>)
            IN  /\ \A n \in wd \cup wm : ~SelectedByPass(n)
                /\ \A n \in wd : ~SelectedPrivate(n)
                /\ wd = Surviving(Nodes(r.dataset, <<>>), SelectedAny)
                /\ SansGroupLength(wm)
                     = SansGroupLength(Surviving(Nodes(r.file_meta, <<>>), SelectedByPass))
                /\ (args.rm_vr = <<>> /\ args.rm_group = <<>> /\ args.rm_tag = <<>>)
                      => w.file_meta = r.file_meta

\* --rm-private with --rm-vr SQ SH: the file loses its private element and
\* its sequence in the main dataset and the SH element of its file-meta.
C12_Witness ==
    /\ args.rm_private
    /\ args.rm_vr = <<"SQ", "SH">>
    /\ args.rm_group = <<>>
    /\ args.rm_tag = <<>>
    /\ \E k \in DOMAIN saves :
          /\ saves[k].read = Image3
          /\ DOMAIN saves[k].written.dataset = {PatientName}
          /\ DOMAIN saves[k].written.file_meta
               = (DOMAIN Image3.file_meta) \ {ImplementationVersionName}

\* main is past make_dcm_fp_list, which returned a list.
Discovered == pc \notin {"main", "exit0", "start", "exit1"}

\* C13: the list returned holds no path twice; for a file it is the path
\* itself, which starts with the DICOM magic bytes; for a directory it holds
\* exactly the files in it and below it that start with the magic bytes, a
\* DICOMDIR like any other, the files of the directory before those of its
\* subdirectory; nothing is written for the files left out.  A file that
\* does not start with the magic bytes gives no list.
C13_ListIsSniffedFiles ==
    /\ Discovered =>
          /\ \A i, j \in DOMAIN fp_list : fp_list[i] = fp_list[j] => i = j
          /\ is_file(fs0, args.d) => fp_list = <<args.d>> /\ fs0[args.d].magic = "DICM"
          /\ ~is_file(fs0, args.d) =>
                /\ is_dir(args.d)
                /\ Range(fp_list) = { p \in DOMAIN fs0 : fs0[p].magic = "DICM" }
                /\ \A i, j \in DOMAIN fp_list :
                      (fp_list[i].base = "x" /\ fp_list[j].base = "s/y") => i < j
          /\ stderr = <<>>
    /\ (pc = "exit1" /\ is_file(fs0, args.d)) => fs0[args.d].magic /= "DICM"

\* A directory with a file that is not DICOM and, one level down, a
\* DICOMDIR: the list is the DICOMDIR alone.
C13_Witness ==
    /\ Discovered
    /\ args.d = Dir
    /\ fs0[X0] = NotDicom
    /\ fp_list = <<Y0>>
    /\ IsDicomDirFile(fs0[Y0])

\* The second dataset of the test without RepetitionTime and EchoTime, as
\* the test writes it down.
ds_2_expected ==
    (StudyDate :> Elem("DA", 8, "20220101")) @@
    (PatientName :> Elem("PN", 18, "SURNAME^Firstname"))

\* C14 (SpecScenario): in the directory of the test, run with --rm-group
\* 0x0018, the file that is not DICOM and the DICOMDIR hold their bytes at
\* every moment; when the run has ended, the file with no element of group
\* 0018 is as it was, the other file holds its elements without
\* RepetitionTime and EchoTime and the same file-meta, and with backup each
\* of the two has a .bak with the bytes it had; no other file exists.
C14_Scenario ==
    /\ fs[fp_not_dicom] = NotDicom
    /\ fs[fp_3] = DicomDir
    /\ pc = "done" =>
          /\ fs[fp_1] = Image1
          /\ fs[fp_2] = File("DICM", TRUE, ImageMeta, ds_2_expected)
          /\ DOMAIN fs = {fp_not_dicom, fp_1, fp_2, fp_3}
                           \cup (IF args.no_backup THEN {} ELSE {Bak(fp_1), Bak(fp_2)})
          /\ ~args.no_backup => fs[Bak(fp_1)] = Image1 /\ fs[Bak(fp_2)] = Image2

\* The run with backup has ended and the second file has lost its two
\* elements of group 0018.
C14_Witness ==
    /\ pc = "done"
    /\ ~args.no_backup
    /\ Len(fp_list) = 3
    /\ RepetitionTime \in DOMAIN fs0[fp_2].dataset
    /\ EchoTime \in DOMAIN fs0[fp_2].dataset
    /\ DOMAIN fs[fp_2].dataset = {StudyDate, PatientName}

\* C15: the command invoked with no argument goes from its start straight
\* to its end with exit code 0, the help on standard output and nothing on
\* standard error: make_dcm_fp_list is not called, no file is read, copied
\* or written, and nothing follows; the help is printed in no other case.
C15_NoArgumentsIsHelp ==
    /\ Len(argv) = 1 => pc = "main" /\ stdout = <<>>
    /\ (Len(argv) = 2 /\ argv[2] = "-h") <=> pc = "exit0"
    /\ pc = "exit0" =>
          /\ stdout = <<Usage>>
          /\ stderr = <<>>
          /\ fp_list = <<>>
          /\ log = <<>>
          /\ saves = <<>>
          /\ fs = fs0
          /\ ~ENABLED Next
    /\ pc /= "exit0" => \A i \in DOMAIN stdout : stdout[i] /= Usage

C15_Witness ==
    /\ pc = "exit0"
    /\ stdout = <<Usage>>
    /\ argv = <<"dcmrmel", "-h">>
    /\ DicomUnder(fs) /= {}

\* The place of each operation in one iteration of the loop of main.
Rank ==
    ("dcmread" :> 0) @@ ("copy" :> 1) @@ ("rm_private" :> 2) @@ ("rm_vr" :> 3) @@
    ("rm_group" :> 4) @@ ("rm_tag" :> 5) @@ ("save_as" :> 6)

\* The removal modes that the command line asks for.
ActiveModes ==
    (IF args.rm_private THEN {"rm_private"} ELSE {})
    \cup (IF args.rm_vr /= <<>> THEN {"rm_vr"} ELSE {})
    \cup (IF args.rm_group /= <<>> THEN {"rm_group"} ELSE {})
    \cup (IF args.rm_tag /= <<>> THEN {"rm_tag"} ELSE {})

\* C16: for each file the operations come in the order read, copy, private
\* pass, VR pass, group pass, tag pass, write-back, each at most once; only
\* requested passes run; when the file is written back every requested pass
\* has run on it; and until the write-back the file holds the bytes read.
C16_PassOrder ==
    /\ \A i, j \in DOMAIN log :
          (i < j /\ log[i].fp = log[j].fp /\ log[i].op \in DOMAIN Rank /\ log[j].op \in DOMAIN Rank)
              => Rank[log[i].op] < Rank[log[j].op]
    /\ \A i \in DOMAIN log :
          /\ log[i].op \in {"rm_private", "rm_vr", "rm_group", "rm_tag"} => log[i].op \in ActiveModes
          /\ log[i].op = "save_as" =>
                \A m \in ActiveModes : \E j \in 1 .. (i - 1) : log[j] = Event(m, log[i].fp)
    /\ pc \in {"backup", "private", "vr", "group", "tag", "save"} => fs[fp] = inp

\* A file that has gone through the copy and the four passes and is written.
C16_Witness ==
    /\ ActiveModes = {"rm_private", "rm_vr", "rm_group", "rm_tag"}
    /\ Len(log) >= 7
    /\ [i \in 1 .. 7 |-> log[i].op]
         = <<"dcmread", "copy", "rm_private", "rm_vr", "rm_group", "rm_tag", "save_as">>
    /\ \A i \in 1 .. 7 : log[i].fp = fp_list[1]
    /\ fs[fp_list[1]] /= fs0[fp_list[1]]

\* The paths in a list of visits.
VisitedPaths(w) == { w.visited[i] : i \in DOMAIN w.visited }

\* The callback of the walk w deletes the element n.
Deleted(w, n) == Matches(w.kind, w.list, NodeTag(n), n)

\* C17 (as claimed): a walk hands every element of the dataset, at every
\* depth, to the callback exactly once, and does not fail.
C17_EveryElementOnce ==
    \A k \in DOMAIN walked :
        LET w == walked[k]
        IN  /\ KeyError \notin VisitedPaths(w)
            /\ Cardinality(VisitedPaths(w)) = Len(w.visited)
            /\ VisitedPaths(w) = { n.path : n \in Nodes(w.before, <<>>) }

\* C17 (amended): a walk hands to the callback, exactly once each, the
\* elements of the dataset that lie in no sequence element that the
\* callback deletes: the elements of the items of a deleted sequence are
\* not visited, they go with it.  Deleting an element passes over no
\* sibling and repeats none; the walk does not fail; the dataset is left
\* with the visited elements that the callback did not delete.  A group
\* string that is not hexadecimal stops remove_group_tags before its walk.
C17_WalkVisits ==
    \A k \in DOMAIN walked :
        LET w       == walked[k]
            nodes   == Nodes(w.before, <<>>)
            paths   == VisitedPaths(w)
            deleted == { n \in nodes : Deleted(w, n) }
        IN  /\ KeyError \notin paths
            /\ Cardinality(paths) = Len(w.visited)
            /\ paths = { n.path : n \in { m \in nodes :
                                             \A o \in deleted : Encloses(o, m) => o = m } }
            /\ { n.path : n \in Nodes(w.after, <<>>) }
                 = { n.path : n \in { m \in nodes : m.path \in paths /\ m \notin deleted } }
            /\ w.kind = "group" => GroupsParse(args.rm_group)

\* The private pass on the dataset with nested sequences visits its ten
\* elements and deletes two; the VR pass that follows deletes the outer
\* sequence and visits none of the elements inside it.
C17_Witness ==
    /\ Len(walked) >= 2
    /\ walked[1].kind = "private"
    /\ walked[1].before = ds_3
    /\ Len(walked[1].visited) = Cardinality(Nodes(ds_3, <<>>))
    /\ Cardinality(Nodes(walked[1].after, <<>>)) = Cardinality(Nodes(ds_3, <<>>)) - 2
    /\ walked[2].kind = "vr"
    /\ walked[2].list = <<"SQ", "SH">>
    /\ walked[2].visited = << <<PatientName>>, <<RequestAttributesSequence>> >>
    /\ DOMAIN walked[2].after = {PatientName}

\* The place of path p in the list.
Pos(p) == CHOOSE k \in DOMAIN fp_list : fp_list[k] = p

\* The operations on path p in the log, as indices.
EventsOf(p) == { i \in DOMAIN log : log[i].fp = p }

\* The loop has finished with path p: it was written back, or read and
\* found to be a DICOMDIR.
Completed(p) ==
    \/ \E i \in EventsOf(p) : log[i].op = "save_as" /\ \A j \in EventsOf(p) : j <= i
    \/ /\ IsDicomDir(dcmread(fs0[p]))
       /\ \E i \in EventsOf(p) : log[i].op = "dcmread" /\ EventsOf(p) = {i}

\* C18: the operations of a run are on files of the list, file after file
\* in the order of the list; a file is read once at most; and when a file
\* is read, every file before it in the list has been read and either
\* written back or skipped as a DICOMDIR, with no operation on it after.
C18_OneFileAtATime ==
    LET reads == { i \in DOMAIN log : log[i].op \in {"dcmread", "dcmread_failed"} }
    IN  /\ \A i \in DOMAIN log :
              /\ log[i].fp \in Range(fp_list)
              /\ Pos(log[i].fp) <= fp_cnt
        /\ \A i \in 1 .. (Len(log) - 1) : Pos(log[i].fp) <= Pos(log[i + 1].fp)
        /\ \A i, j \in reads : log[i].fp = log[j].fp => i = j
        /\ \A j \in reads :
              \A k \in 1 .. (Pos(log[j].fp) - 1) :
                  /\ Completed(fp_list[k])
                  /\ \A i \in EventsOf(fp_list[k]) : i < j

\* Two files, each read, copied and written, one after the other.
C18_Witness ==
    /\ pc = "done"
    /\ Len(fp_list) = 2
    /\ [i \in DOMAIN log |-> log[i].op]
         = <<"dcmread", "copy", "save_as", "dcmread", "copy", "save_as">>
    /\ [i \in DOMAIN log |-> Pos(log[i].fp)] = <<1, 1, 1, 2, 2, 2>>

\* C19 (as claimed): a progress report is printed when its file is done:
\* the i-th report of a run is on standard output only when the i-th file
\* of the list has been written back or skipped, so that a report of 100%
\* tells that every file of the list has been.
C19_ProgressAfterFile ==
    Discovered =>
        /\ \A i \in DOMAIN stdout : Completed(fp_list[i])
        /\ (\E i \in DOMAIN stdout : stdout[i].percents = 100)
              => \A k \in DOMAIN fp_list : Completed(fp_list[k])

\* C20 (SpecProgress): each call prints the message given, or the empty
\* string when none is given, then a whole number of percent that is the
\* integer part of 100*count/total rounded to one decimal (the exact value
\* when that is whole, otherwise within 0.05 above and 0.95 below it), and
\* ends with a newline when count equals total and with a carriage return
\* otherwise; in a loop from 1 to total the newline is printed once, by the
\* last call.
C20_ProgressFormat ==
    /\ \A i \in DOMAIN stdout :
          LET count == args.first + i - 1
              total == args.total
              out   == stdout[i]
          IN  /\ out.message = (IF args.message = None THEN "" ELSE args.message[1])
              /\ out.end \in {"\n", "\r"}
              /\ out.end = "\n" <=> count = total
              /\ 20 * total * out.percents <= 2000 * count + total
              /\ 2000 * count <= 20 * total * out.percents + 19 * total
              /\ (100 * count) % total = 0 => out.percents = (100 * count) \div total
              /\ (count = 1 /\ total = 3) => out.percents = 33
              /\ (count = 2 /\ total = 3) => out.percents = 66
    /\ (args.first = 1 /\ Len(stdout) = args.total)
          => { i \in DOMAIN stdout : stdout[i].end = "\n" } = {Len(stdout)}
    /\ Len(stdout) < args.total - args.first + 1
          => \A i \in DOMAIN stdout : stdout[i].end = "\r"

\* The three calls of a loop over three files, with no message.
C20_Witness ==
    /\ args.first = 1
    /\ args.total = 3
    /\ args.message = None
    /\ stdout = << [message |-> "", percents |-> 33, end |-> "\r"],
                   [message |-> "", percents |-> 66, end |-> "\r"],
                   [message |-> "", percents |-> 100, end |-> "\n"] >>

\* The element n is selected by a mode that the arguments ask for.
SelectedByAnyMode(n) ==
    \/ args.rm_private /\ is_private(NodeTag(n))
    \/ InList(n.VR, args.rm_vr)
    \/ InGroups(n)
    \/ InTags(n)

\* C21 (SpecPasses): whatever the order of the four passes, when all have
\* been made the main dataset is the one that the order of main leaves, and
\* its elements are the elements of the dataset given that are selected by
\* no requested mode (private, VR, group, tag) and lie in no sequence
\* element that is; before that, every element that a pass has removed is
\* selected by a requested mode or lies in a sequence element that is.
C21_UnionAndCommute ==
    LET given == Nodes(args.dataset, <<>>)
        union == Surviving(given, SelectedByAnyMode)
    IN  /\ union \subseteq Nodes(ds.dataset, <<>>)
        /\ Nodes(ds.dataset, <<>>) \subseteq given
        /\ fp_cnt = Cardinality(PassNames) =>
              /\ ds.dataset = main_passes(args.dataset, args)
              /\ Nodes(ds.dataset, <<>>) = union

\* The passes made in an order that is not the one of main, the tag pass
\* first and the private pass last, all four asked for, on the dataset with
\* nested sequences: three of them removed something.
C21_Witness ==
    /\ fp_cnt = Cardinality(PassNames)
    /\ args.order = <<"tag", "group", "vr", "private">>
    /\ args.dataset = ds_3
    /\ args.rm_private
    /\ args.rm_vr = <<"DA">>
    /\ args.rm_group /= <<>>
    /\ args.rm_tag = << KwPatientName >>
    /\ Cardinality({ i \in DOMAIN log : log[i].before /= log[i].after }) >= 3
    /\ ds.dataset /= args.dataset

\* The files that the run has created: they were not there when it started.
Created == (DOMAIN fs) \ (DOMAIN fs0)

\* The operations that wrote to path p in this run, as indices of the log: a
\* write-back of p, or a copy to p, complete or not.
WritesTo(p) ==
    { i \in DOMAIN log :
        \/ log[i].op = "save_as" /\ log[i].fp = p
        \/ log[i].op \in {"copy", "copy_failed"} /\ Bak(log[i].fp) = p }

\* The files under the path given that start with the DICOM magic bytes,
\* as they were when the run started.
Recognized ==
    IF is_dir(args.d) THEN DicomUnder(fs0) ELSE { p \in DicomUnder(fs0) : p = args.d }

MalformedSelector ==
    \/ args.rm_group /= <<>> /\ ~GroupsParse(args.rm_group)
    \/ args.rm_tag /= <<>> /\ ~TagsParse(args.rm_tag)

\* C23 (as claimed): with a malformed selector no file is ever written
\* back and every file that was there when the run started holds the bytes
\* it had; the run ends successfully only if every file of the list is a
\* DICOMDIR; the conversion fails on the first file of the list that is
\* not a DICOMDIR, as the last operation of the run, and with backup the
\* .bak of that file then holds the bytes of the file.
C23_MalformedSelectorAborts ==
    MalformedSelector =>
        /\ \A i \in DOMAIN log : log[i].op /= "save_as"
        /\ \A p \in DOMAIN fs0 : fs[p] = fs0[p]
        /\ pc = "done" => \A f \in Range(fp_list) : IsDicomDirFile(fs0[f])
        /\ \A i \in DOMAIN log :
              log[i].op = "ValueError" =>
                  /\ i = Len(log)
                  /\ pc = "raised"
                  /\ ~ENABLED Next
                  /\ log[i].fp = fp
                  /\ ~IsDicomDirFile(fs0[fp])
                  /\ \A k \in 1 .. (fp_cnt - 1) : IsDicomDirFile(fs0[fp_list[k]])
                  /\ ~args.no_backup =>
                        Bak(fp) \in DOMAIN fs /\ fs[Bak(fp)] = fs0[fp]

\* The command is given the one file x, with backup, and has ended with
\* exit code 0.
SingleFileRunEnded == args.d = X0 /\ ~args.no_backup /\ pc = "done"

\* The write-backs of the first run, as indices of saves.
FirstRunSaves == { j \in DOMAIN saves : saves[j].run = 1 }

\* C24 (as claimed): after each run with backup on the single file x, not a
\* DICOMDIR, x.bak holds what x held when that run started; after the
\* second run x.bak holds what the first run wrote, and no longer what x
\* held before the first run.
C24_BakLosesOriginal ==
    (SingleFileRunEnded /\ ~IsDicomDirFile(fs0[X0])) =>
        /\ X1 \in DOMAIN fs
        /\ fs[X1] = fs0[X0]
        /\ run = 2 =>
              \A j \in FirstRunSaves :
                  fs[X1] = saves[j].written /\ fs[X1] /= saves[j].read

\* C24 (amended): for a file x that is not a DICOMDIR, after each run with
\* backup that ends with exit code 0, x.bak holds what x held when that run
\* started, whatever was at x.bak before; after the second run x.bak holds
\* what the first run wrote, and it holds what x held before the first run
\* exactly when the first run wrote x back as it was.  For a DICOMDIR no
\* copy is made: x.bak is as it was, or is not there.
C24_BakOverwritten ==
    SingleFileRunEnded =>
        IF IsDicomDirFile(fs0[X0])
        THEN /\ X1 \in DOMAIN fs <=> X1 \in DOMAIN fs0
             /\ X1 \in DOMAIN fs => fs[X1] = fs0[X1]
             /\ saves = <<>>
        ELSE /\ X1 \in DOMAIN fs
             /\ fs[X1] = fs0[X0]
             /\ run = 2 =>
                   /\ Cardinality(FirstRunSaves) = 1
                   /\ \A j \in FirstRunSaves :
                         /\ saves[j].fp = X0
                         /\ fs[X1] = saves[j].written
                         /\ fs[X1] = saves[j].read <=> saves[j].written = saves[j].read

\* Two runs on the one file: the first removed elements, and after the
\* second x.bak holds the output of the first, not the file as it was
\* before the first.
C24_Witness ==
    /\ SingleFileRunEnded
    /\ run = 2
    /\ \E j \in FirstRunSaves :
          /\ saves[j].read = Image3
          /\ saves[j].written /= saves[j].read
          /\ fs[X1] = saves[j].written
          /\ fs[X0] = saves[j].written

\* There are such files, and every one of them is a DICOMDIR.
OnlyDicomDirs == Recognized /= {} /\ \A p \in Recognized : IsDicomDirFile(fs0[p])

\* C25: when the files recognized as DICOM under the path are DICOMDIR files
\* only, the run neither ends with exit code 1 nor with an error raised
\* and goes on until it ends with exit code 0; nothing is written to
\* standard error; the list holds every one of them; each file read has
\* its progress report, and at the end there is one report for each of
\* them, the last one of 100% and ended by a newline; the files are read
\* and nothing else is done to any file: no file is created or changed.
C25_OnlyDicomDirs ==
    OnlyDicomDirs =>
        /\ pc \notin {"exit1", "raised"}
        /\ pc /= "done" => ENABLED Next
        /\ stderr = <<>>
        /\ Discovered => Range(fp_list) = Recognized /\ Len(fp_list) = Cardinality(Recognized)
        /\ Len(stdout) = fp_cnt
        /\ \A i \in DOMAIN stdout :
              stdout[i] = progress(i, Len(fp_list), Some(RemovingTags(Len(fp_list))))
        /\ pc = "done" =>
              /\ Len(stdout) = Cardinality(Recognized)
              /\ stdout[Len(stdout)].percents = 100
              /\ stdout[Len(stdout)].end = "\n"
        /\ fs = fs0
        /\ saves = <<>>
        /\ \A i \in DOMAIN log : log[i].op = "dcmread"

\* A directory with two DICOMDIR files, run with backup and with removal
\* options: the run has ended, two reports were printed, and the files are
\* as they were.
C25_Witness ==
    /\ OnlyDicomDirs
    /\ args.d = Dir
    /\ pc = "done"
    /\ Cardinality(Recognized) = 2
    /\ ~args.no_backup
    /\ args.rm_private
    /\ args.rm_vr /= <<>>
    /\ [i \in DOMAIN stdout |-> stdout[i].percents] = <<50, 100>>
    /\ [i \in DOMAIN log |-> log[i].op] = <<"dcmread", "dcmread">>
    /\ fs = fs0

====
